---------------------------- MODULE Spec2Model ----------------------------
(***************************************************************************)
(* MIDI-songs-to-serial-port-control: the MidiPlayer of mimi-midi-print.py *)
(* (load_midi, play, stop, the _play_notes thread and the __main__ flow),  *)
(* and the serial port of mimi-midi-ser.py (_send_note, close).            *)
(*                                                                         *)
(* Times in seconds are the floats mido.tick2second returns; they are      *)
(* modelled as exact fractions <<numerator, denominator>> in lowest terms  *)
(* (floating-point rounding is not modelled).                              *)
(***************************************************************************)
EXTENDS Integers, Sequences, FiniteSets, TLC

VARIABLES
    mid,            \* the decoded file behind the path given to load_midi
    note_queue,     \* self.note_queue: sequence of <<seconds, note, state>>
    playing,        \* self.playing
    thread,         \* self.thread: 0 is None, otherwise the id of a thread
    threads,        \* the thread objects created by play(): pc, last_time, item
    sink,           \* the calls of _send_note, in order: the event, the thread, what came out
    mpc,            \* position of the controlling context (__main__)
    load_result,    \* what load_midi returned ("none" before it has returned)
    counters,       \* <<total_notes, valid_notes>> as printed by a successful load
    timeline0,      \* the note_queue as it stood when play() started the thread
    stop_entry,     \* what stop() found when it was entered ("none" before)
    stop_returned,  \* stop() has returned
    sink_at_stop,   \* Len(sink) when stop() returned
    loads,          \* number of load_midi calls that have returned
    play_outcome,   \* what the last play() did: "none", "empty" or "started"
    ser             \* self.ser of mimi-midi-ser.py: "none", "open" or "closed"

vars == <<mid, note_queue, playing, thread, threads, sink, mpc, load_result,
          counters, timeline0, stop_entry, stop_returned, sink_at_stop,
          loads, play_outcome, ser>>

-----------------------------------------------------------------------------
(* Bounds of the model *)

\* most messages in a file given to the load-only specification
MaxMsgs == 3
\* most messages in a file given to the whole program
MaxPlayMsgs == 2
\* most thread objects play() may create
MaxThreads == 2

(* Program constants *)

DefaultTempo == 500000
LowNote == 24
HighNote == 108
MicrosPerSecond == 1000000
JoinTimeout == 1

-----------------------------------------------------------------------------
(* Seconds as exact fractions *)

Abs(n) == IF n < 0 THEN -n ELSE n

RECURSIVE GCD(_, _)
GCD(a, b) == IF b = 0 THEN a ELSE GCD(b, a % b)

\* n/d in lowest terms, d > 0
Frac(n, d) ==
    LET g == GCD(Abs(n), d)
    IN  <<n \div g, d \div g>>

Zero == <<0, 1>>
FLess(a, b) == a[1] * b[2] < b[1] * a[2]
FLeq(a, b) == a[1] * b[2] <= b[1] * a[2]
FSub(a, b) == Frac(a[1] * b[2] - b[1] * a[2], a[2] * b[2])
FAdd(a, b) == Frac(a[1] * b[2] + b[1] * a[2], a[2] * b[2])

\* mido.tick2second(tick, ticks_per_beat, tempo) = tick * tempo * 1e-6 / ticks_per_beat
tick2second_noTpb(tick, ticks_per_beat, tempo) ==
    Frac(tick * tempo, MicrosPerSecond)
tick2second(tick, ticks_per_beat, tempo) ==
    Frac(tick * tempo, MicrosPerSecond * ticks_per_beat)

-----------------------------------------------------------------------------
(* The decoded file: mido.MidiFile(filepath) *)

NoteOn(time, note, velocity) ==
    [type |-> "note_on", time |-> time, note |-> note, velocity |-> velocity, tempo |-> 0]
NoteOff(time, note, velocity) ==
    [type |-> "note_off", time |-> time, note |-> note, velocity |-> velocity, tempo |-> 0]
SetTempo(time, tempo) ==
    [type |-> "set_tempo", time |-> time, note |-> 0, velocity |-> 0, tempo |-> tempo]
Other(time) ==
    [type |-> "program_change", time |-> time, note |-> 0, velocity |-> 0, tempo |-> 0]

\* The messages a file is made of: both edges, a note-on of velocity 0, the
\* pitches at and just outside both ends of the range, a long delta, tempo
\* changes (a tempo of 0 is what makes line 64 divide by zero) and a message
\* that only advances the time.
Messages ==
    { NoteOn(0, LowNote, 64), NoteOn(1, HighNote, 0), NoteOn(4, 60, 64),
      NoteOff(0, HighNote, 64),
      NoteOn(0, LowNote - 1, 64), NoteOff(1, HighNote + 1, 64),
      SetTempo(0, 1000000), SetTempo(1, 250000), SetTempo(0, 0),
      Other(1) }

TicksPerBeatValues == {1, 2}

\* tracks of a file: msgs cut into tracks, a new track starting before msgs[i]
\* when i is in cuts (and before the first message)
RECURSIVE Cut(_, _, _)
Cut(msgs, cuts, i) ==
    IF i > Len(msgs) THEN <<>>
    ELSE LET rest == Cut(msgs, cuts, i + 1)
         IN  IF i = Len(msgs) \/ (i + 1) \in cuts
             THEN <<(<<msgs[i]>>)>> \o rest
             ELSE <<(<<msgs[i]>> \o Head(rest))>> \o Tail(rest)

MidiFile(tpb, tracks) ==
    [exists |-> TRUE, parses |-> TRUE, ticks_per_beat |-> tpb, tracks |-> tracks]

\* a path that does not exist, and a file mido.MidiFile cannot parse
NoFile == [exists |-> FALSE, parses |-> FALSE, ticks_per_beat |-> 1, tracks |-> <<>>]
BadFile == [exists |-> TRUE, parses |-> FALSE, ticks_per_beat |-> 1, tracks |-> <<>>]

\* file is a path that does not exist, a file that does not parse, or a
\* file of at most n messages in one or more tracks (none when it is empty)
IsFile(file, n) ==
    \/ file = NoFile
    \/ file = BadFile
    \/ \E tpb \in TicksPerBeatValues : \E k \in 0..n :
          \E msgs \in [1..k -> Messages] : \E cuts \in SUBSET (2..k) :
              file = MidiFile(tpb, Cut(msgs, cuts, 1))

-----------------------------------------------------------------------------
(* load_midi *)

IsNote(msg) == msg.type \in {"note_on", "note_off"}

\* line 72: 24 <= msg.note <= 108
InRange_exclusive(note) == LowNote < note /\ note < HighNote
InRange(note) == LowNote <= note /\ note <= HighNote

\* line 81: "ON" if msg.type == 'note_on' and msg.velocity > 0 else "OFF"
NoteState_ignoreVelocity(msg) == IF msg.type = "note_on" THEN "ON" ELSE "OFF"
NoteState(msg) ==
    IF msg.type = "note_on" /\ msg.velocity > 0 THEN "ON" ELSE "OFF"

\* line 90: sorted(self.note_queue, key=lambda x: x[0]), a stable sort:
\* x goes after every element whose key is not greater than its own
RECURSIVE InsertByTime_unstable(_, _)
InsertByTime_unstable(s, x) ==
    IF s = <<>> THEN <<x>>
    ELSE IF FLeq(x[1], s[Len(s)][1])
         THEN Append(InsertByTime_unstable(SubSeq(s, 1, Len(s) - 1), x), s[Len(s)])
         ELSE Append(s, x)

RECURSIVE InsertByTime(_, _)
InsertByTime(s, x) ==
    IF s = <<>> THEN <<x>>
    ELSE IF FLess(x[1], s[Len(s)][1])
         THEN Append(InsertByTime(SubSeq(s, 1, Len(s) - 1), x), s[Len(s)])
         ELSE Append(s, x)

RECURSIVE SortFrom(_, _, _)
SortFrom(sorted, q, i) ==
    IF i > Len(q) THEN sorted
    ELSE SortFrom(InsertByTime(sorted, q[i]), q, i + 1)

SortByTime_none(q) == q
SortByTime(q) == SortFrom(<<>>, q, 1)

\* lines 44-52: the locals of load_midi before the loop over the tracks
LoadStart(queue) ==
    [tempo |-> DefaultTempo, track_time |-> 0, total_notes |-> 0,
     valid_notes |-> 0, queue |-> queue, raised |-> FALSE]

\* line 57: what the start of a track resets
TrackStart(st) == [st EXCEPT !.track_time = 0]

\* lines 62-64: tempo = msg.tempo, then the BPM print divides by it
OnSetTempo(st, msg) ==
    [st EXCEPT !.tempo = msg.tempo, !.raised = (msg.tempo = 0)]

\* lines 67-87: a note message
OnNote_countKeptOnly(st, msg, tpb) ==
    IF InRange(msg.note)
    THEN [st EXCEPT !.total_notes = @ + 1,
                    !.queue = Append(@, <<tick2second(st.track_time, tpb, st.tempo),
                                          msg.note, NoteState(msg)>>),
                    !.valid_notes = @ + 1]
    ELSE st
OnNote(st, msg, tpb) ==
    IF InRange(msg.note)
    THEN [st EXCEPT !.total_notes = @ + 1,
                    !.queue = Append(@, <<tick2second(st.track_time, tpb, st.tempo),
                                          msg.note, NoteState(msg)>>),
                    !.valid_notes = @ + 1]
    ELSE [st EXCEPT !.total_notes = @ + 1]

\* lines 59-87: one message of a track
OnMessage(st0, msg, tpb) ==
    LET st1 == [st0 EXCEPT !.track_time = @ + msg.time]
        st2 == IF msg.type = "set_tempo" THEN OnSetTempo(st1, msg) ELSE st1
    IN  IF st2.raised THEN st2
        ELSE IF IsNote(msg) THEN OnNote(st2, msg, tpb) ELSE st2

\* lines 58-87: the messages of a track from the j-th on
RECURSIVE OnTrack(_, _, _, _)
OnTrack(st, track, j, tpb) ==
    IF st.raised \/ j > Len(track) THEN st
    ELSE OnTrack(OnMessage(st, track[j], tpb), track, j + 1, tpb)

\* lines 55-87: the tracks from the i-th on
RECURSIVE OnTracks(_, _, _, _)
OnTracks(st, tracks, i, tpb) ==
    IF st.raised \/ i > Len(tracks) THEN st
    ELSE OnTracks(OnTrack(TrackStart(st), tracks[i], 1, tpb), tracks, i + 1, tpb)

\* lines 36-100: what load_midi returns and leaves in self.note_queue
load_midi(queue, file) ==
    IF ~file.exists \/ ~file.parses
    THEN [ok |-> FALSE, queue |-> queue, total_notes |-> 0, valid_notes |-> 0]
    ELSE LET st == OnTracks(LoadStart(queue), file.tracks, 1, file.ticks_per_beat)
         IN  IF st.raised
             THEN [ok |-> FALSE, queue |-> st.queue,
                   total_notes |-> st.total_notes, valid_notes |-> st.valid_notes]
             ELSE [ok |-> TRUE, queue |-> SortByTime(st.queue),
                   total_notes |-> st.total_notes, valid_notes |-> st.valid_notes]

-----------------------------------------------------------------------------
(* The player: __init__, load_midi, play, stop and the _play_notes thread *)

Threads == 1..MaxThreads
NoItem == <<>>
Unborn == [pc |-> "unborn", last_time |-> Zero, item |-> NoItem]

\* lines 10-13 and the start of __main__
InitPlayer ==
    /\ note_queue = <<>>
    /\ playing = FALSE
    /\ thread = 0
    /\ threads = [t \in Threads |-> Unborn]
    /\ sink = <<>>
    /\ load_result = "none"
    /\ counters = <<0, 0>>
    /\ timeline0 = <<>>
    /\ stop_entry = "none"
    /\ stop_returned = FALSE
    /\ sink_at_stop = 0
    /\ loads = 0
    /\ play_outcome = "none"

\* threading.Thread.is_alive
IsAlive(t) == t \in Threads /\ threads[t].pc \notin {"unborn", "done", "crashed"}
Created == Cardinality({t \in Threads : threads[t].pc # "unborn"})

\* the process is running: daemon threads stop with the interpreter
ProcessRunning == mpc # "exit"

\* lines 36-100
LoadMidi ==
    LET r == load_midi(note_queue, mid)
    IN  /\ note_queue' = r.queue
        /\ load_result' = IF r.ok THEN "ok" ELSE "failed"
        /\ counters' = IF r.ok THEN <<r.total_notes, r.valid_notes>> ELSE counters
        /\ loads' = loads + 1

\* lines 102-112
Play_startsAnyway ==
    /\ Created < MaxThreads
    /\ play_outcome' = IF note_queue = <<>> THEN "empty" ELSE "started"
    /\ playing' = TRUE
    /\ thread' = Created + 1
    /\ threads' = [threads EXCEPT ![Created + 1] =
                      [pc |-> "while", last_time |-> Zero, item |-> NoItem]]
    /\ timeline0' = note_queue
Play ==
    IF note_queue = <<>>
    THEN /\ play_outcome' = "empty"
         /\ UNCHANGED <<playing, thread, threads, timeline0>>
    ELSE /\ Created < MaxThreads
         /\ play_outcome' = "started"
         /\ playing' = TRUE
         /\ thread' = Created + 1
         /\ threads' = [threads EXCEPT ![Created + 1] =
                           [pc |-> "while", last_time |-> Zero, item |-> NoItem]]
         /\ timeline0' = note_queue

\* lines 22-23: the loop test and the test of the queue
ThreadWhile_stopsOnFlag(t) ==
    /\ ProcessRunning
    /\ threads[t].pc = "while"
    /\ threads' = [threads EXCEPT ![t].pc =
                      IF ~playing THEN "done"
                      ELSE IF note_queue # <<>> THEN "pop" ELSE "nap"]
    /\ UNCHANGED <<mid, note_queue, playing, thread, sink, mpc, load_result,
                   counters, timeline0, stop_entry, stop_returned,
                   sink_at_stop, loads,
                   play_outcome, ser>>

ThreadWhile(t) ==
    /\ ProcessRunning
    /\ threads[t].pc = "while"
    /\ threads' = [threads EXCEPT ![t].pc =
                      IF note_queue # <<>> THEN "pop"
                      ELSE IF playing THEN "nap" ELSE "done"]
    /\ UNCHANGED <<mid, note_queue, playing, thread, sink, mpc, load_result,
                   counters, timeline0, stop_entry, stop_returned,
                   sink_at_stop, loads,
                   play_outcome, ser>>

\* line 28: delay > 0
NeedsSleep_nonzero(timestamp, last_time) == FSub(timestamp, last_time) # Zero
NeedsSleep(timestamp, last_time) == FLess(Zero, FSub(timestamp, last_time))

\* lines 24-28: popleft (IndexError on an empty deque ends the thread) and the delay
ThreadPop(t) ==
    /\ ProcessRunning
    /\ threads[t].pc = "pop"
    /\ IF note_queue = <<>>
       THEN /\ threads' = [threads EXCEPT ![t].pc = "crashed"]
            /\ UNCHANGED note_queue
       ELSE /\ note_queue' = Tail(note_queue)
            /\ threads' = [threads EXCEPT
                  ![t].item = Head(note_queue),
                  ![t].pc = IF NeedsSleep(Head(note_queue)[1], threads[t].last_time)
                            THEN "sleep" ELSE "send"]
    /\ UNCHANGED <<mid, playing, thread, sink, mpc, load_result, counters,
                   timeline0, stop_entry, stop_returned, sink_at_stop, loads,
                   play_outcome, ser>>

\* line 29: time.sleep(delay) returns
ThreadSleep(t) ==
    /\ ProcessRunning
    /\ threads[t].pc = "sleep"
    /\ threads' = [threads EXCEPT ![t].pc = "send"]
    /\ UNCHANGED <<mid, note_queue, playing, thread, sink, mpc, load_result,
                   counters, timeline0, stop_entry, stop_returned,
                   sink_at_stop, loads,
                   play_outcome, ser>>

\* lines 30-32 and 15-17: last_time = timestamp, then _send_note prints
ThreadSend(t) ==
    /\ ProcessRunning
    /\ threads[t].pc = "send"
    /\ sink' = Append(sink, [item |-> threads[t].item, by |-> t, out |-> "console",
                             text |-> <<threads[t].item[3], threads[t].item[2]>>,
                             wire |-> <<>>])
    /\ threads' = [threads EXCEPT ![t].last_time = threads[t].item[1],
                                  ![t].item = NoItem,
                                  ![t].pc = "while"]
    /\ UNCHANGED <<mid, note_queue, playing, thread, mpc, load_result, counters,
                   timeline0, stop_entry, stop_returned, sink_at_stop, loads,
                   play_outcome, ser>>

\* line 34: time.sleep(0.001) returns
ThreadNap(t) ==
    /\ ProcessRunning
    /\ threads[t].pc = "nap"
    /\ threads' = [threads EXCEPT ![t].pc = "while"]
    /\ UNCHANGED <<mid, note_queue, playing, thread, sink, mpc, load_result,
                   counters, timeline0, stop_entry, stop_returned,
                   sink_at_stop, loads,
                   play_outcome, ser>>

\* the seconds thread t still has to sleep before its loop can end with
\* playing false: the delay it is in (whose elapsed part is not known) and
\* the positive delays of the events still queued
RECURSIVE QueuedDelay(_, _, _)
QueuedDelay(q, prev, i) ==
    IF i > Len(q) THEN Zero
    ELSE LET d == FSub(q[i][1], prev)
         IN  FAdd(IF FLess(Zero, d) THEN d ELSE Zero, QueuedDelay(q, q[i][1], i + 1))

RemainingSeconds(t) ==
    LET th == threads[t]
        cur == IF th.pc = "sleep" THEN FSub(th.item[1], th.last_time) ELSE Zero
        prev == IF th.pc \in {"sleep", "send"} THEN th.item[1] ELSE th.last_time
    IN  FAdd(cur, QueuedDelay(note_queue, prev, 1))

\* line 118: join(timeout=1.0) can give up only on a thread that has more
\* than the timeout left to sleep
JoinCanTimeOut_never(t) == FALSE
JoinCanTimeOut(t) == IsAlive(t) /\ FLess(<<JoinTimeout, 1>>, RemainingSeconds(t))

\* lines 116-117 (and 119 when there is no live thread to join)
StopBegin(joining, returned) ==
    /\ playing' = FALSE
    /\ stop_entry' = IF thread # 0 /\ IsAlive(thread)
                      THEN IF note_queue # <<>> THEN "running_queued" ELSE "running"
                      ELSE "idle"
    /\ IF thread # 0 /\ IsAlive(thread)
       THEN /\ mpc' = joining
            /\ UNCHANGED <<stop_returned, sink_at_stop>>
       ELSE /\ mpc' = returned
            /\ stop_returned' = TRUE
            /\ sink_at_stop' = Len(sink)

\* lines 118-119: join returns, because the thread ended or on the timeout
StopReturn(returned) ==
    /\ mpc' = returned
    /\ stop_returned' = TRUE
    /\ sink_at_stop' = Len(sink)
    /\ UNCHANGED <<mid, note_queue, playing, thread, threads, sink, load_result,
                   counters, timeline0, stop_entry, loads,
                   play_outcome, ser>>

-----------------------------------------------------------------------------
(* __main__, lines 126-139 *)

\* line 129: load_midi; a failed load skips play() and goes to the finally
MainLoad ==
    /\ mpc = "load"
    /\ LoadMidi
    /\ mpc' = IF load_midi(note_queue, mid).ok THEN "play" ELSE "stop"
    /\ UNCHANGED <<mid, playing, thread, threads, sink, timeline0,
                   stop_entry, stop_returned, sink_at_stop,
                   play_outcome, ser>>

\* line 130
MainPlay ==
    /\ mpc = "play"
    /\ Play
    /\ mpc' = "wait"
    /\ UNCHANGED <<mid, note_queue, sink, load_result, counters,
                   stop_entry, stop_returned, sink_at_stop, loads, ser>>

\* lines 133-134: the wait loop ends when there is no live thread
MainWaitDone ==
    /\ mpc = "wait"
    /\ thread = 0 \/ ~IsAlive(thread)
    /\ mpc' = "stop"
    /\ UNCHANGED <<mid, note_queue, playing, thread, threads, sink, load_result,
                   counters, timeline0, stop_entry, stop_returned,
                   sink_at_stop, loads,
                   play_outcome, ser>>

\* lines 136-138: Ctrl+C anywhere in the try block leads to the finally
KeyboardInterrupt ==
    /\ mpc \in {"load", "play", "wait"}
    /\ mpc' = "stop"
    /\ UNCHANGED <<mid, note_queue, playing, thread, threads, sink, load_result,
                   counters, timeline0, stop_entry, stop_returned,
                   sink_at_stop, loads,
                   play_outcome, ser>>

\* line 139: player.stop()
MainStop ==
    /\ mpc = "stop"
    /\ StopBegin("join", "stopped")
    /\ UNCHANGED <<mid, note_queue, thread, threads, sink, load_result,
                   counters, timeline0, loads,
                   play_outcome, ser>>

MainJoined ==
    /\ mpc = "join"
    /\ ~IsAlive(thread)
    /\ StopReturn("stopped")

MainJoinTimeout ==
    /\ mpc = "join"
    /\ JoinCanTimeOut(thread)
    /\ StopReturn("stopped")

\* the end of the script: the interpreter exits and takes the daemon thread along
MainExit ==
    /\ mpc = "stopped"
    /\ mpc' = "exit"
    /\ UNCHANGED <<mid, note_queue, playing, thread, threads, sink, load_result,
                   counters, timeline0, stop_entry, stop_returned,
                   sink_at_stop, loads,
                   play_outcome, ser>>

ThreadNext ==
    \E t \in Threads :
        \/ ThreadWhile(t)
        \/ ThreadPop(t)
        \/ ThreadSleep(t)
        \/ ThreadSend(t)
        \/ ThreadNap(t)

MainNext ==
    \/ MainLoad
    \/ MainPlay
    \/ MainWaitDone
    \/ MainStop
    \/ MainJoined
    \/ MainJoinTimeout
    \/ MainExit

Init ==
    /\ IsFile(mid, MaxPlayMsgs)
    /\ InitPlayer
    /\ ser = "none"
    /\ mpc = "load"

Next == MainNext \/ KeyboardInterrupt \/ ThreadNext

\* the program
Spec == Init /\ [][Next]_vars

-----------------------------------------------------------------------------
(* load_midi alone: called on a fresh player, and once more on the same player *)

ApiLoad ==
    /\ mpc = "api"
    /\ loads = 0
    /\ LoadMidi
    /\ UNCHANGED <<mid, playing, thread, threads, sink, mpc, timeline0,
                   stop_entry, stop_returned, sink_at_stop,
                   play_outcome, ser>>

ApiReload ==
    /\ mpc = "api"
    /\ loads = 1
    /\ LoadMidi
    /\ UNCHANGED <<mid, playing, thread, threads, sink, mpc, timeline0,
                   stop_entry, stop_returned, sink_at_stop,
                   play_outcome, ser>>

InitLoad ==
    /\ IsFile(mid, MaxMsgs)
    /\ InitPlayer
    /\ ser = "none"
    /\ mpc = "api"

NextLoad == ApiLoad \/ ApiReload

SpecLoad == InitLoad /\ [][NextLoad]_vars

-----------------------------------------------------------------------------
(* The player driven by any caller: load_midi (at most twice), play (at most
   two threads started) and stop called in any order on one player, the
   threads running in between *)

\* lines 102-112, called by any caller: the first play() that starts a thread
\* or finds the queue empty, and one play() after a thread has been started
ApiPlay ==
    /\ mpc = "api"
    /\ Created = 0
    /\ Play
    /\ UNCHANGED <<mid, note_queue, sink, mpc, load_result, counters,
                   stop_entry, stop_returned, sink_at_stop, loads, ser>>

ApiPlayAgain ==
    /\ mpc = "api"
    /\ Created = 1
    /\ Play
    /\ UNCHANGED <<mid, note_queue, sink, mpc, load_result, counters,
                   stop_entry, stop_returned, sink_at_stop, loads, ser>>

\* lines 114-119, called by any caller
ApiStop ==
    /\ mpc = "api"
    /\ StopBegin("apijoin", "api")
    /\ UNCHANGED <<mid, note_queue, thread, threads, sink, load_result,
                   counters, timeline0, loads,
                   play_outcome, ser>>

ApiJoined ==
    /\ mpc = "apijoin"
    /\ ~IsAlive(thread)
    /\ StopReturn("api")

ApiJoinTimeout ==
    /\ mpc = "apijoin"
    /\ JoinCanTimeOut(thread)
    /\ StopReturn("api")

\* the files the caller loads: one track of notes at the same and at a later
\* tick, and the set_tempo that makes the load fail half-way
ApiMessages == { NoteOn(0, LowNote, 64), NoteOn(4, 60, 64), SetTempo(0, 0) }

IsApiFile(file, n) ==
    \E k \in 0..n : \E msgs \in [1..k -> ApiMessages] :
        file = MidiFile(1, Cut(msgs, {}, 1))

InitApi ==
    /\ IsApiFile(mid, MaxPlayMsgs)
    /\ InitPlayer
    /\ ser = "none"
    /\ mpc = "api"

NextApi ==
    \/ ApiLoad
    \/ ApiReload
    \/ ApiPlay
    \/ ApiPlayAgain
    \/ ApiStop
    \/ ApiJoined
    \/ ApiJoinTimeout
    \/ ThreadNext

SpecApi == InitApi /\ [][NextApi]_vars

\* the same caller when it starts one thread only
NextReload ==
    \/ ApiLoad
    \/ ApiReload
    \/ ApiPlay
    \/ ApiStop
    \/ ApiJoined
    \/ ApiJoinTimeout
    \/ ThreadNext

SpecReload == InitApi /\ [][NextReload]_vars

-----------------------------------------------------------------------------
(* mimi-midi-ser.py: the same player with a serial port. load_midi, play,
   stop and the loop of _play_notes are the same code; _send_note writes the
   ON events to the port, and __main__ closes the port after stop() *)

\* line 65: f"on {note}\r"
Command(note) == <<"on ", note, "\r">>

\* the call of _send_note has ended: its record, and the thread back at the loop test
SendNoteDone(t, out, text, wire) ==
    /\ sink' = Append(sink, [item |-> threads[t].item, by |-> t, out |-> out,
                             text |-> text, wire |-> wire])
    /\ threads' = [threads EXCEPT ![t].last_time = threads[t].item[1],
                                  ![t].item = NoItem,
                                  ![t].pc = "while"]

\* lines 89-91 and 63-67, 73-76: last_time = timestamp, then _send_note up to
\* the test of the port: an OFF event gives no output, an ON event goes to
\* the write when the port is open and is printed as "ON <note>" otherwise
ThreadSendSer(t) ==
    /\ ProcessRunning
    /\ threads[t].pc = "send"
    /\ IF threads[t].item[3] # "ON"
       THEN SendNoteDone(t, "none", <<>>, <<>>)
       ELSE IF ser = "open"
            THEN /\ threads' = [threads EXCEPT ![t].last_time = threads[t].item[1],
                                               ![t].pc = "write"]
                 /\ UNCHANGED sink
            ELSE SendNoteDone(t, "console", <<"ON ", threads[t].item[2]>>, <<>>)
    /\ UNCHANGED <<mid, note_queue, playing, thread, mpc, load_result, counters,
                   timeline0, stop_entry, stop_returned, sink_at_stop, loads,
                   play_outcome, ser>>

\* lines 68-72: ser.write(command) and the echo of the command, or the
\* SerialException of a failed write (a port closed since the test of line 67
\* raises it too) and the error line
ThreadWrite(t) ==
    /\ ProcessRunning
    /\ threads[t].pc = "write"
    /\ \E written \in BOOLEAN :
          /\ written => ser = "open"
          /\ IF written
             THEN SendNoteDone(t, "serial", <<"b'on ", threads[t].item[2], "\\r'">>,
                               Command(threads[t].item[2]))
             ELSE SendNoteDone(t, "error", <<"serial send error">>, <<>>)
    /\ UNCHANGED <<mid, note_queue, playing, thread, mpc, load_result, counters,
                   timeline0, stop_entry, stop_returned, sink_at_stop, loads,
                   play_outcome, ser>>

\* lines 180-184 called at line 208: close() after stop() has returned
SerClose ==
    /\ mpc = "stopped"
    /\ mpc' = "closed"
    /\ ser' = IF ser = "open" THEN "closed" ELSE ser
    /\ UNCHANGED <<mid, note_queue, playing, thread, threads, sink, load_result,
                   counters, timeline0, stop_entry, stop_returned,
                   sink_at_stop, loads, play_outcome>>

\* the end of the script
SerExit ==
    /\ mpc = "closed"
    /\ mpc' = "exit"
    /\ UNCHANGED <<mid, note_queue, playing, thread, threads, sink, load_result,
                   counters, timeline0, stop_entry, stop_returned,
                   sink_at_stop, loads, play_outcome, ser>>

ThreadNextSer ==
    \E t \in Threads :
        \/ ThreadWhile(t)
        \/ ThreadPop(t)
        \/ ThreadSleep(t)
        \/ ThreadSendSer(t)
        \/ ThreadWrite(t)
        \/ ThreadNap(t)

MainNextSer ==
    \/ MainLoad
    \/ MainPlay
    \/ MainWaitDone
    \/ MainStop
    \/ MainJoined
    \/ MainJoinTimeout
    \/ SerClose
    \/ SerExit

\* lines 12-46: __init__ has opened the port, or found none or failed to open it
InitSer ==
    /\ IsFile(mid, MaxPlayMsgs)
    /\ InitPlayer
    /\ ser \in {"none", "open"}
    /\ mpc = "load"

NextSer == MainNextSer \/ KeyboardInterrupt \/ ThreadNextSer

SpecSer == InitSer /\ [][NextSer]_vars

-----------------------------------------------------------------------------
(* Playback: ordering, cancellation, termination *)

\* the events dispatched so far, in the order _send_note was called
Dispatched == [k \in 1..Len(sink) |-> sink[k].item]

IsPrefix(a, b) == Len(a) <= Len(b) /\ a = SubSeq(b, 1, Len(a))

NonDecreasing(q) ==
    \A j \in 1..Len(q) : \A k \in 1..Len(q) : j < k => FLeq(q[j][1], q[k][1])

StopRequested == stop_entry # "none"

\* C1: the events are dispatched in Timeline order: a later dispatched event
\* never has a smaller timeSeconds than an earlier one, and the dispatched
\* sequence is a prefix of the Timeline as it stood when play() started the
\* thread.
C1_DispatchInTimelineOrder ==
    /\ NonDecreasing(Dispatched)
    /\ IsPrefix(Dispatched, timeline0)

\* two events of two tracks, extracted in the opposite order of their times,
\* have both been dispatched
C1_Witness ==
    /\ Len(mid.tracks) = 2
    /\ Len(sink) = 2
    /\ FLess(sink[1].item[1], sink[2].item[1])
    /\ sink[1].item[2] = mid.tracks[2][1].note
    /\ sink[2].item[2] = mid.tracks[1][1].note
    /\ sink[1].item[2] # sink[2].item[2]

\* C2: when stop() is issued while the thread is running with events still
\* queued, then once stop() has returned the thread has ended and nothing
\* more is emitted.
C2_StopEndsPlayback ==
    (stop_returned /\ stop_entry = "running_queued")
        => /\ ~IsAlive(thread)
           /\ Len(sink) = sink_at_stop

\* the thread has dispatched every event of the Timeline and nothing is queued
Drained ==
    /\ thread # 0
    /\ timeline0 # <<>>
    /\ note_queue = <<>>
    /\ Len(sink) = Len(timeline0)

\* C3: with no stop() request, once the last event has been dispatched the
\* thread leaves its loop and ends on its own: the loop test it makes with
\* the Timeline drained ends it (a test that does not end it brings the thread
\* back to the same test in the same state, for ever).
C3_EndsOnItsOwn ==
    [][(/\ Drained
        /\ ~StopRequested
        /\ threads[thread].pc = "while"
        /\ threads'[thread] # threads[thread])
           => ~IsAlive(thread)']_vars

-----------------------------------------------------------------------------
(* Extraction and the Timeline: what the file says the queue must hold *)

\* the places <<track, message>> of the file, and the order of traversal
Positions ==
    UNION { { <<i, j>> : j \in 1..Len(mid.tracks[i]) } : i \in 1..Len(mid.tracks) }
MsgAt(p) == mid.tracks[p[1]][p[2]]
Before(p, q) == p[1] < q[1] \/ (p[1] = q[1] /\ p[2] < q[2])

\* the cumulative tick position of the track at the message at p
RECURSIVE TicksUpTo(_, _)
TicksUpTo(i, j) == IF j = 0 THEN 0 ELSE TicksUpTo(i, j - 1) + mid.tracks[i][j].time
CumTicks(p) == TicksUpTo(p[1], p[2])

Latest(ps) == CHOOSE q \in ps : \A r \in ps : r = q \/ Before(r, q)

\* the latest set-tempo message met before p in the traversal, in any track
TempoSeen(p) ==
    LET earlier == { q \in Positions : Before(q, p) /\ MsgAt(q).type = "set_tempo" }
    IN  IF earlier = {} THEN 500000 ELSE MsgAt(Latest(earlier)).tempo

\* the latest set-tempo message met before p in the track of p
TempoOfTrack(p) ==
    LET earlier == { q \in Positions :
                       q[1] = p[1] /\ q[2] < p[2] /\ MsgAt(q).type = "set_tempo" }
    IN  IF earlier = {} THEN 500000 ELSE MsgAt(Latest(earlier)).tempo

NotePositions == { p \in Positions : MsgAt(p).type \in {"note_on", "note_off"} }
KeptPositions == { p \in NotePositions : 24 <= MsgAt(p).note /\ MsgAt(p).note <= 108 }

Seconds(ticks, tempo) == Frac(ticks * tempo, 1000000 * mid.ticks_per_beat)
Edge(msg) == IF msg.type = "note_on" /\ msg.velocity > 0 THEN "ON" ELSE "OFF"

\* the entry the message at p stands for
Entry(p) == <<Seconds(CumTicks(p), TempoSeen(p)), MsgAt(p).note, Edge(MsgAt(p))>>
EntryTrackScoped(p) ==
    <<Seconds(CumTicks(p), TempoOfTrack(p)), MsgAt(p).note, Edge(MsgAt(p))>>

\* the kept places in the order of traversal: track order, then message order
RECURSIVE InOrder(_)
InOrder(ps) ==
    IF ps = {} THEN <<>>
    ELSE LET first == CHOOSE q \in ps : \A r \in ps : r = q \/ Before(q, r)
         IN  <<first>> \o InOrder(ps \ {first})
Discovery == InOrder(KeptPositions)
ExpectedAppended == [k \in 1..Len(Discovery) |-> Entry(Discovery[k])]

\* the entries of q whose time is v, in the order they have in q
WithTime(q, v) == LET At(x) == x[1] = v IN SelectSeq(q, At)

Indices(q) == 1..Len(q)
Pitches ==
    { MsgAt(p).note : p \in NotePositions } \cup
    { note_queue[k][2] : k \in Indices(note_queue) }
FirstLoadOk == load_result = "ok" /\ loads = 1

\* C4: a set-tempo message of one track never changes the conversion of the
\* notes of another track: every track starts at tempo 500000, so after a
\* successful load on a fresh player every entry has the time its own track's
\* tempo messages give it.
C4_TempoIsTrackScoped ==
    FirstLoadOk =>
        \A x \in { EntryTrackScoped(p) : p \in KeptPositions } \cup
                 { note_queue[k] : k \in Indices(note_queue) } :
            Cardinality({ k \in Indices(note_queue) : note_queue[k] = x })
                = Cardinality({ p \in KeptPositions : EntryTrackScoped(p) = x })

\* C5: a successful load leaves the Timeline sorted ascending by timeSeconds
\* over its whole length, and the entries of equal timeSeconds in the order in
\* which they were appended (after what the queue already held: track order,
\* then message order).
C5_SortedStable ==
    [][(loads' = loads + 1 /\ load_result' = "ok")
         => /\ NonDecreasing(note_queue')
            /\ Len(note_queue') = Len(note_queue) + Len(ExpectedAppended)
            /\ \A k \in Indices(note_queue') :
                  WithTime(note_queue', note_queue'[k][1])
                    = WithTime(note_queue \o ExpectedAppended, note_queue'[k][1])]_vars

\* a load whose sort had to move an entry and which left two different
\* entries of equal time next to each other
C5_Witness ==
    /\ FirstLoadOk
    /\ note_queue # ExpectedAppended
    /\ \E k \in Indices(note_queue) :
          /\ k < Len(note_queue)
          /\ note_queue[k][1] = note_queue[k + 1][1]
          /\ note_queue[k] # note_queue[k + 1]

\* C6: after a successful load on a fresh player the Timeline holds one entry
\* for every note message with pitch in [24,108] and nothing else; the total
\* counter counts the out-of-range note messages too, and the valid counter
\* is the length of the Timeline.
C6_TimelineIsTheInRangeNotes ==
    FirstLoadOk =>
        /\ \A n \in Pitches :
              Cardinality({ k \in Indices(note_queue) : note_queue[k][2] = n })
                = Cardinality({ p \in KeptPositions : MsgAt(p).note = n })
        /\ Len(note_queue) = Cardinality(KeptPositions)
        /\ counters = <<Cardinality(NotePositions), Len(note_queue)>>

\* a file with a kept and a discarded note message has been loaded
C6_Witness ==
    /\ FirstLoadOk
    /\ KeptPositions # {}
    /\ NotePositions \ KeptPositions # {}
    /\ Len(note_queue) = Cardinality(KeptPositions)

\* C7: a load that fails leaves no partial Timeline: the queue of a fresh
\* player holds no entry after load_midi has returned the failure result.
C7_NoPartialTimeline ==
    (load_result = "failed" /\ loads = 1) => note_queue = <<>>

\* C8: the timeSeconds of an in-range note is its track's cumulative tick
\* position times the tempo of the latest set-tempo message met before it
\* (500000 if none), divided by 1,000,000 x ticksPerBeat; a later tempo
\* message does not change it. 480 ticks at tempo 1,000,000 and 480 ticks per
\* beat are 1.0 s.
C8_TickToSecond ==
    /\ tick2second(480, 480, 1000000) = <<1, 1>>
    /\ FirstLoadOk =>
          \A x \in { <<Entry(p)[1], Entry(p)[2]>> : p \in KeptPositions } \cup
                   { <<note_queue[k][1], note_queue[k][2]>> : k \in Indices(note_queue) } :
              Cardinality({ k \in Indices(note_queue) :
                              <<note_queue[k][1], note_queue[k][2]>> = x })
                = Cardinality({ p \in KeptPositions : <<Entry(p)[1], Entry(p)[2]>> = x })

\* a note after a tempo change and ticks, in a file of 2 ticks per beat, with
\* a tempo message after it
C8_Witness ==
    /\ FirstLoadOk
    /\ mid.ticks_per_beat = 2
    /\ \E p \in KeptPositions :
          /\ CumTicks(p) > 0
          /\ TempoSeen(p) # 500000
          /\ \E q \in Positions : Before(p, q) /\ MsgAt(q).type = "set_tempo"
          /\ \E k \in Indices(note_queue) : note_queue[k] = Entry(p)

\* C9: every entry of the queue has its pitch in [24,108] and timeSeconds >= 0;
\* note messages of pitch 24 and 108 are kept, those of pitch 23 and 109 are not.
C9_PitchAndTimeInRange ==
    /\ \A k \in Indices(note_queue) :
          /\ 24 <= note_queue[k][2] /\ note_queue[k][2] <= 108
          /\ note_queue[k][1][1] >= 0 /\ note_queue[k][1][2] > 0
    /\ FirstLoadOk =>
          \A n \in {23, 24, 108, 109} :
              Cardinality({ k \in Indices(note_queue) : note_queue[k][2] = n })
                = IF n \in {24, 108}
                  THEN Cardinality({ p \in NotePositions : MsgAt(p).note = n })
                  ELSE 0

\* a file with a note at one end of the range and one just outside has been loaded
C9_Witness ==
    /\ FirstLoadOk
    /\ \E p \in NotePositions : MsgAt(p).note \in {23, 109}
    /\ \E k \in Indices(note_queue) : note_queue[k][2] \in {24, 108}

\* C10: an entry is ON exactly when its message is a note-on with velocity
\* greater than 0; a note-off and a note-on of velocity 0 are OFF.
C10_EdgeClassification ==
    FirstLoadOk =>
        \A n \in Pitches : \A e \in {"ON", "OFF"} :
            Cardinality({ k \in Indices(note_queue) :
                            note_queue[k][2] = n /\ note_queue[k][3] = e })
              = Cardinality({ p \in KeptPositions :
                                /\ MsgAt(p).note = n
                                /\ (e = "ON") <=> (MsgAt(p).type = "note_on"
                                                   /\ MsgAt(p).velocity > 0) })

\* a note-on of velocity 0 has been extracted as OFF beside a note-on that is ON
C10_Witness ==
    /\ FirstLoadOk
    /\ \E p \in KeptPositions : MsgAt(p).type = "note_on" /\ MsgAt(p).velocity = 0
    /\ \E k \in Indices(note_queue) : note_queue[k][3] = "ON"
    /\ \E k \in Indices(note_queue) : note_queue[k][3] = "OFF"

-----------------------------------------------------------------------------
(* play() on an empty Timeline, the return of stop(), the drain *)

\* C11: play() on a Timeline with no entry reports it and leaves the player
\* idle: no thread is created, playing stays false, nothing is emitted, and
\* the stop() that follows returns at once, finding nothing to join.
C11_PlayOnEmptyTimeline ==
    play_outcome = "empty" =>
        /\ thread = 0
        /\ \A t \in Threads : threads[t].pc = "unborn"
        /\ playing = FALSE
        /\ sink = <<>>
        /\ timeline0 = <<>>
        /\ StopRequested => (stop_entry = "idle" /\ stop_returned)

\* play() found the Timeline of a well-formed file empty, and stop() has returned
C11_Witness ==
    /\ play_outcome = "empty"
    /\ load_result = "ok"
    /\ stop_returned

\* the steps thread t has left before its loop ends, once playing is false
StepsLeft(t) ==
    LET pc == threads[t].pc
        queued == 4 * Len(note_queue)
    IN  CASE pc = "pop" -> queued + 1
          [] pc = "while" -> queued + 2
          [] pc = "send" -> queued + 3
          [] pc = "nap" -> queued + 3
          [] pc = "sleep" -> queued + 4
          [] OTHER -> 0

CanStep(t) == threads[t].pc \in {"while", "pop", "sleep", "send", "nap"}

\* a step of the threads that brings the end of the joined thread's loop nearer
ThreadAdvances == ThreadNext /\ StepsLeft(thread)' < StepsLeft(thread)

\* a step that changes the joined thread without bringing its end nearer
ThreadLingers ==
    /\ ThreadNext
    /\ threads'[thread] # threads[thread]
    /\ StepsLeft(thread)' >= StepsLeft(thread)

\* the return of join, whatever lets it return: the guards of MainJoined and
\* MainJoinTimeout are state predicates and are evaluated outside ENABLED
JoinReturns == mpc = "join" /\ StopReturn("stopped")
JoinedEnabled == ~IsAlive(thread) /\ ENABLED JoinReturns
JoinTimeoutEnabled == JoinCanTimeOut(thread) /\ ENABLED JoinReturns

\* join is left without stop() having returned
JoinLeftOpen == JoinReturns /\ ~(stop_returned' /\ mpc' = "stopped")

\* the delay the thread is suspended in is longer than the join timeout
LongDelay(t) ==
    LET ts == threads[t].item[1]
        last == threads[t].last_time
    IN  /\ threads[t].pc = "sleep"
        /\ ts[1] * last[2] - last[1] * ts[2] > JoinTimeout * ts[2] * last[2]

\* C12: stop() always returns: while it waits in join, either the thread has
\* ended and join returns, or the timeout lets join return, or the thread is
\* on its way out (it can step, and each of its steps brings the end of its
\* loop nearer); a thread suspended in a delay longer than the timeout does
\* not keep stop() from returning; and stop() has returned when join is left.
C12_StopReturns ==
    mpc = "join" =>
        /\ playing = FALSE
        /\ JoinedEnabled \/ JoinTimeoutEnabled \/ ENABLED ThreadAdvances
        /\ (~IsAlive(thread)) => JoinedEnabled
        /\ LongDelay(thread) => JoinTimeoutEnabled
        /\ ~ENABLED ThreadLingers
        /\ ~ENABLED JoinLeftOpen

\* stop() has returned on the timeout with the thread suspended in its delay
C12_Witness ==
    /\ stop_returned
    /\ IsAlive(thread)
    /\ LongDelay(thread)

\* C19: with one thread, the loop ends only with playing false and the queue
\* empty, and by then every event queued when play() started the thread has
\* been dispatched exactly once, in order, also when stop() came in the
\* middle: the remaining events are drained, not discarded.
C19_DrainedBeforeExit ==
    \A t \in Threads :
        threads[t].pc = "done" =>
            /\ playing = FALSE
            /\ note_queue = <<>>
            /\ Dispatched = timeline0

\* the thread has ended after a stop() that found it running with events
\* queued, and both events of the Timeline have been dispatched
C19_Witness ==
    /\ thread # 0
    /\ threads[thread].pc = "done"
    /\ stop_entry = "running_queued"
    /\ Len(timeline0) = 2
    /\ Len(sink) = 2

-----------------------------------------------------------------------------
(* Loading again, and the order of one track's notes *)

\* C13: loading is deterministic and idempotent: a second successful load of
\* the same file on the player that already holds the Timeline of the first
\* load leaves the Timeline a load on a fresh player gives.
C13_ReloadGivesSameTimeline ==
    (loads = 2 /\ load_result = "ok") => note_queue = load_midi(<<>>, mid).queue

\* C20: within one track the extracted times never decrease, whatever
\* set-tempo messages lie between the notes, so the sorted Timeline of a file
\* of one track is the track's in-range notes in their original order.
C20_TrackOrderKept ==
    FirstLoadOk =>
        /\ \A p, q \in KeptPositions :
              (p[1] = q[1] /\ p[2] < q[2]) => FLeq(Entry(p)[1], Entry(q)[1])
        /\ Len(mid.tracks) = 1 => note_queue = ExpectedAppended

-----------------------------------------------------------------------------
(* Any caller: the number of threads, the delay before a dispatch *)

Alive == { t \in Threads : IsAlive(t) }

\* C15: whatever play() and stop() calls are made, play() twice or play()
\* after a stop() whose join timed out included, at most one thread runs the
\* loop of _play_notes at any time.
C15_AtMostOneThread == Cardinality(Alive) <= 1

\* timeSeconds a is strictly later than b
Later(a, b) == a[1] * b[2] > b[1] * a[2]

\* C17: the thread sleeps before a dispatch only when the popped event's
\* timeSeconds is strictly later than the last dispatched one; an event of
\* the same or of an earlier time goes to its dispatch at once; and the
\* dispatch sets last_time to the event's timeSeconds.
C17_SleepOnlyOnPositiveDelay ==
    [][\A t \in Threads :
          /\ (threads[t].pc = "pop" /\ threads'[t].pc \in {"sleep", "send"}) =>
                /\ threads'[t].item = Head(note_queue)
                /\ threads'[t].pc = "sleep"
                      <=> Later(threads'[t].item[1], threads[t].last_time)
          /\ (threads[t].pc = "send" /\ threads'[t].pc # "send") =>
                /\ threads'[t].last_time = threads[t].item[1]
                /\ Len(sink') = Len(sink) + 1
                /\ sink'[Len(sink')].item = threads[t].item]_vars

\* a thread is about to dispatch, without having slept, an event earlier than
\* the last one it dispatched
C17_Witness ==
    \E t \in Threads :
        /\ threads[t].pc = "send"
        /\ Later(threads[t].last_time, threads[t].item[1])

-----------------------------------------------------------------------------
(* The serial port *)

\* the calls of _send_note that have ended, for ON events
OnCalls == { k \in 1..Len(sink) : sink[k].item[3] = "ON" }
OffCalls == { k \in 1..Len(sink) : sink[k].item[3] # "ON" }

\* C14: with a serial port, a failure of the sink on one event never ends the
\* loop: the thread does not die, it has dispatched every event when it ends,
\* and every ON event that was not written to the port has been printed on
\* the console as "ON <pitch>".
C14_SinkFailureFallsBack ==
    /\ \A t \in Threads :
          /\ threads[t].pc # "crashed"
          /\ threads[t].pc = "done" =>
                (note_queue = <<>> /\ Dispatched = timeline0)
    /\ \A k \in OnCalls :
          sink[k].out # "serial" =>
              (sink[k].out = "console" /\ sink[k].text = <<"ON ", sink[k].item[2]>>)

\* C16: the port is never closed by the main thread while a thread of
\* _play_notes is alive, in particular when close() follows stop().
C16_NoCloseWhileThreadAlive == ser = "closed" => Alive = {}

\* C18: every dispatched ON event has exactly one output, the command
\* "on <pitch>" + CR on the port or else the line "ON <pitch>" on the console,
\* and a dispatched OFF event has no output, on the port or on the console.
C18_OneOutputPerOnEvent ==
    /\ \A k \in OnCalls :
          \/ /\ sink[k].out = "serial"
             /\ sink[k].wire = Command(sink[k].item[2])
          \/ /\ sink[k].out = "console"
             /\ sink[k].wire = <<>>
             /\ sink[k].text = <<"ON ", sink[k].item[2]>>
    /\ \A k \in OffCalls :
          sink[k].out = "none" /\ sink[k].wire = <<>> /\ sink[k].text = <<>>

=============================================================================
